---- MODULE Spec2Model ----
(***************************************************************************)
(* fastify-proper-limiter: the rate limiter preHandler (src/plugin.js),    *)
(* the registration of the plugin and of a route (the onRoute hook), the   *)
(* in-process LocalStore and the RedisStore with its server-side increxpr  *)
(* script.                                                                 *)
(*                                                                         *)
(* Strings are sequences of tokens, so that template-literal               *)
(* concatenation is sequence concatenation.  Time is counted in whole      *)
(* seconds; Date.now() is clock * 1000 milliseconds.                       *)
(***************************************************************************)
EXTENDS Integers, Sequences, FiniteSets, TLC

VARIABLES
    store,      \* the LocalStore instance: _cache, _oldCache, _size, _max
    clock,      \* wall clock of the process, in seconds
    calls,      \* direct LocalStore.increment calls, in the order they were made
    config,     \* the route's final limiter config (plugin.js, onRoute)
    testStore,  \* the LocalTestStore instance of the plugin tests: val, ts
    reqs,       \* the requests in flight: where each is in the preHandler
    last,       \* the request whose preHandler finished last, as it finished
    incLog,     \* how many times preHandlers called store.increment, by key
    overlap,    \* whether a request arrived while another was in its preHandler
    rdb,        \* the keys of the Redis server: value and remaining time to live
    rgen,       \* how many times each key of the Redis server was deleted
    rconn,      \* the ioredis client of each RedisStore: connected or not
    rcalls,     \* the RedisStore.increment calls
    options,    \* the options the plugin was registered with
    globalOptions,  \* the plugin's global options (plugin.js, globalOptions)
    route,      \* the route added to the application, as onRoute left it
    ran         \* what the latest request to the route called, in order

vars == <<store, clock, calls, config, testStore, reqs, last, incLog, overlap,
          rdb, rgen, rconn, rcalls, options, globalOptions, route, ran>>
limiterVars == <<config, testStore, reqs, last, incLog, overlap>>
redisVars == <<rdb, rgen, rconn, rcalls>>
routeVars == <<options, globalOptions, route, ran>>

(***************************************************************************)
(* Bounds of the model.                                                    *)
(***************************************************************************)
MaxClock == 2
MaxCalls == 3
MaxTtl == 2
MaxCap == 2
MaxReqs == 2
MaxTime == 1
MaxLimit == 1
MaxRedisCalls == 3
MaxRedisTtl == 1
MaxLimiterFields == 1

(***************************************************************************)
(* JavaScript values.                                                      *)
(***************************************************************************)
Undefined == [undefined |-> TRUE]
Null == [null |-> TRUE]
Num(n) == [number |-> n]
Bool(b) == [boolean |-> b]
Function == [function |-> TRUE]
ReferenceError == [error |-> "ReferenceError: now is not defined"]

NaN == [nan |-> TRUE]
Str(s) == [string |-> s]
\* A function, by its name.
Fn(name) == [function |-> name]
\* An array, by its elements.
Arr(elements) == [array |-> elements]
\* A plain object, by its own enumerable properties.
Obj(properties) == [object |-> properties]

IsNumber(v) == DOMAIN v = {"number"}
IsFunction(v) == DOMAIN v = {"function"}
IsArray(v) == DOMAIN v = {"array"}

\* The typeof operator.
Typeof(v) ==
    CASE DOMAIN v = {"undefined"} -> "undefined"
      [] DOMAIN v \in {{"number"}, {"nan"}} -> "number"
      [] DOMAIN v = {"boolean"} -> "boolean"
      [] DOMAIN v = {"string"} -> "string"
      [] "function" \in DOMAIN v -> "function"
      [] OTHER -> "object"

\* ToBoolean: undefined, null, false, 0, NaN and "" are falsy; objects,
\* errors, functions, true and the other numbers and strings are truthy.
Truthy(v) == v \notin {Undefined, Null, Bool(FALSE), Num(0), NaN, Str("")}

\* obj[field]: a property that is absent reads as undefined.
Get(obj, field) ==
    IF "object" \in DOMAIN obj /\ field \in DOMAIN obj.object
    THEN obj.object[field]
    ELSE Undefined

\* A settled promise.
Fulfilled(v) == [state |-> "fulfilled", value |-> v]
Rejected(e) == [state |-> "rejected", reason |-> e]

\* The error a settled promise rejected with, if it did.
Settled(promise) == IF promise.state = "rejected" THEN promise.reason ELSE Null

\* util.awaitTo: what `await to(promise)` evaluates to, the pair [err, data].
awaitTo(promise) ==
    IF promise.state = "fulfilled"
    THEN <<Null, promise.value>>
    ELSE <<promise.reason, Undefined>>

DateNow(c) == c * 1000

(***************************************************************************)
(* Map: a function whose domain is the set of keys present.                *)
(***************************************************************************)
Range(f) == {f[x] : x \in DOMAIN f}

NewMap == [k \in {} |-> Undefined]
MapHas(m, key) == key \in DOMAIN m
MapGet(m, key) == IF key \in DOMAIN m THEN m[key] ELSE Undefined
MapSet(m, key, value) ==
    [k \in DOMAIN m \cup {key} |-> IF k = key THEN value ELSE m[k]]
MapDelete(m, key) == [k \in DOMAIN m \ {key} |-> m[k]]
MapSize(m) == Cardinality(DOMAIN m)

\* No route is added.
NoRoutes ==
    /\ options = Null
    /\ globalOptions = Null
    /\ route = Null
    /\ ran = <<>>

\* No RedisStore is in use.
NoRedis ==
    /\ rdb = NewMap
    /\ rgen = NewMap
    /\ rconn = <<>>
    /\ rcalls = <<>>

(***************************************************************************)
(* LocalStore.                                                             *)
(***************************************************************************)
DefaultMax == 5000

LocalStore_new(max) ==
    [max |-> max, size |-> 0, cache |-> NewMap, oldCache |-> NewMap]

\* _set whose rotation leaves the entries in the current generation too.
LocalStore_set_RotateCopy(s, key, value) ==
    IF MapHas(s.cache, key)
    THEN [s EXCEPT !.cache = MapSet(s.cache, key, value)]
    ELSE LET cache1 == MapSet(s.cache, key, value)
             size1 == s.size + 1
         IN IF size1 >= s.max
            THEN [s EXCEPT !.size = 0, !.oldCache = cache1, !.cache = cache1]
            ELSE [s EXCEPT !.size = size1, !.cache = cache1]

\* _set whose rotation discards both generations.
LocalStore_set_DropAll(s, key, value) ==
    IF MapHas(s.cache, key)
    THEN [s EXCEPT !.cache = MapSet(s.cache, key, value)]
    ELSE LET cache1 == MapSet(s.cache, key, value)
             size1 == s.size + 1
         IN IF size1 >= s.max
            THEN [s EXCEPT !.size = 0, !.oldCache = NewMap, !.cache = NewMap]
            ELSE [s EXCEPT !.size = size1, !.cache = cache1]

LocalStore_set_NoRotate(s, key, value) ==
    IF MapHas(s.cache, key)
    THEN [s EXCEPT !.cache = MapSet(s.cache, key, value)]
    ELSE [s EXCEPT !.size = s.size + 1, !.cache = MapSet(s.cache, key, value)]

\* _set(key, value): the store after the call.
LocalStore_set(s, key, value) ==
    IF MapHas(s.cache, key)
    THEN [s EXCEPT !.cache = MapSet(s.cache, key, value)]
    ELSE LET cache1 == MapSet(s.cache, key, value)
             size1 == s.size + 1
         IN IF size1 >= s.max
            THEN [s EXCEPT !.size = 0, !.oldCache = cache1, !.cache = NewMap]
            ELSE [s EXCEPT !.size = size1, !.cache = cache1]

\* _get that leaves a promoted key in the previous generation.
LocalStore_get_KeepPrevious(s, key) ==
    IF MapHas(s.cache, key)
    THEN [value |-> MapGet(s.cache, key), store |-> s]
    ELSE IF MapHas(s.oldCache, key)
    THEN [value |-> MapGet(s.oldCache, key),
          store |-> LocalStore_set(s, key, MapGet(s.oldCache, key))]
    ELSE [value |-> Undefined, store |-> s]

LocalStore_get_CurrentOnly(s, key) ==
    [value |-> MapGet(s.cache, key), store |-> s]

\* _get(key): the returned value and the store after the call.
LocalStore_get(s, key) ==
    IF MapHas(s.cache, key)
    THEN [value |-> MapGet(s.cache, key), store |-> s]
    ELSE IF MapHas(s.oldCache, key)
    THEN LET value == MapGet(s.oldCache, key)
             s1 == [s EXCEPT !.oldCache = MapDelete(s.oldCache, key)]
         IN [value |-> value, store |-> LocalStore_set(s1, key, value)]
    ELSE [value |-> Undefined, store |-> s]

\* increment(key, ttl) at Date.now() = dateNow: the promise the async
\* function returns and the store after the call.  The body has no await: it runs to completion when it is called.
\* The identifier `now` of the expiry test is declared nowhere, so evaluating
\* the test throws as soon as `!counter` is false.
LocalStore_increment(s, key, ttl, dateNow) ==
    LET g == LocalStore_get(s, key)
        counter == g.value
    IN IF counter = Undefined
       THEN LET fresh == [value |-> 1, createdAt |-> dateNow]
            IN [promise |-> Fulfilled(Num(fresh.value)),
                store |-> LocalStore_set(g.store, key, fresh)]
       ELSE [promise |-> Rejected(ReferenceError), store |-> g.store]

(***************************************************************************)
(* The stores of the plugin tests.                                         *)
(***************************************************************************)
LocalTestStore_new == [val |-> NewMap, ts |-> NewMap]

\* LocalTestStore.increment(key, ttl): the promise and the store after it.
LocalTestStore_increment(s, key, ttl, dateNow) ==
    LET reset == \/ ~MapHas(s.val, key)
                 \/ (dateNow - MapGet(s.ts, key)) >= ttl * 1000
        val0 == IF reset THEN MapSet(s.val, key, 0) ELSE s.val
        ts0 == IF reset THEN MapSet(s.ts, key, dateNow) ELSE s.ts
        val1 == MapSet(val0, key, val0[key] + 1)
    IN [promise |-> Fulfilled(Num(val1[key])), store |-> [val |-> val1, ts |-> ts0]]

TestError == [error |-> "Test \"skipOnError\""]

\* TestErrorStore.increment(): always rejects.
TestErrorStore_increment == Rejected(TestError)

(***************************************************************************)
(* Direct use of a LocalStore (test/LocalStore.test.js).                   *)
(***************************************************************************)
LocalKeys == {<<"key">>, <<"key2">>}
Ttls == 0..MaxTtl

InitLocal ==
    /\ \E max \in (1..MaxCap) \cup {DefaultMax} : store = LocalStore_new(max)
    /\ clock = 0
    /\ calls = <<>>
    /\ config = Null
    /\ testStore = LocalTestStore_new
    /\ reqs = <<>>
    /\ last = Null
    /\ overlap = FALSE
    /\ incLog = NewMap
    /\ NoRedis
    /\ NoRoutes

\* store.increment(key, ttl) is called; its promise is not awaited yet.
LsIncrement(key, ttl) ==
    /\ Len(calls) < MaxCalls
    /\ LET r == LocalStore_increment(store, key, ttl, DateNow(clock))
       IN /\ store' = r.store
          /\ calls' = Append(calls, [key |-> key, ttl |-> ttl, at |-> DateNow(clock),
                                     promise |-> r.promise, awaited |-> FALSE,
                                     alone |-> \A i \in 1..Len(calls) :
                                                  calls[i].awaited])
    /\ UNCHANGED <<clock, limiterVars, redisVars, routeVars>>

\* The caller's await of the oldest outstanding promise resumes.
LsAwait ==
    /\ \E i \in 1..Len(calls) :
          /\ ~calls[i].awaited
          /\ \A j \in 1..(i - 1) : calls[j].awaited
          /\ calls' = [calls EXCEPT ![i].awaited = TRUE]
    /\ UNCHANGED <<store, clock, limiterVars, redisVars, routeVars>>

LsTick ==
    /\ clock < MaxClock
    /\ clock' = clock + 1
    /\ UNCHANGED <<store, calls, limiterVars, redisVars, routeVars>>

NextLocal ==
    \/ \E key \in LocalKeys, ttl \in Ttls : LsIncrement(key, ttl)
    \/ LsAwait
    \/ LsTick

SpecLocal == InitLocal /\ [][NextLocal]_vars

(***************************************************************************)
(* Properties of LocalStore.increment.                                     *)
(***************************************************************************)
\* The first n calls are increment(key, W) for one key and one W.
SameKeyAndTtl(n) ==
    \A i \in 1..n : calls[i].key = calls[1].key /\ calls[i].ttl = calls[1].ttl

\* Call i is made less than W seconds after the first call.
BeforeExpiry(i) == calls[i].at - calls[1].at < calls[1].ttl * 1000

\* C3: for a fresh key and W > 0, the n-th of consecutive increment(key, W)
\* calls, each made after the one before it was awaited and less than W
\* seconds after the first, resolves with n.
C3_FixedWindowCounting ==
    \A n \in 1..Len(calls) :
        (/\ calls[1].ttl > 0
         /\ SameKeyAndTtl(n)
         /\ \A i \in 1..n : calls[i].alone /\ BeforeExpiry(i)) =>
            calls[n].promise = Fulfilled(Num(n))

\* C4: the first increment(key, W) made W seconds or more after the key's
\* window started resolves with 1 and starts a new window at that time.
C4_WindowReset ==
    \A n \in 2..Len(calls) :
        (/\ SameKeyAndTtl(n)
         /\ \A i \in 1..(n - 1) : BeforeExpiry(i)
         /\ ~BeforeExpiry(n)) =>
            /\ calls[n].promise = Fulfilled(Num(1))
            /\ n = Len(calls) =>
                   LocalStore_get(store, calls[n].key).value.createdAt = calls[n].at

\* C5: K increment calls for one fresh key, all made before any of them is
\* awaited, resolve with exactly the counts 1..K.
C5_ConcurrentIncrements ==
    (/\ calls # <<>>
     /\ calls[1].ttl > 0
     /\ SameKeyAndTtl(Len(calls))
     /\ \A i \in 1..Len(calls) : ~calls[i].awaited /\ calls[i].at = calls[1].at) =>
        {calls[i].promise : i \in 1..Len(calls)}
            = {Fulfilled(Num(n)) : n \in 1..Len(calls)}

\* The calls before call j that were made for its key.
EarlierCalls(j) == {i \in 1..(j - 1) : calls[i].key = calls[j].key}

\* The first call made for the key of call j.
FirstCall(j) == CHOOSE i \in EarlierCalls(j) \cup {j} :
                    \A k \in EarlierCalls(j) : i <= k

\* C24: whatever increments of other keys come in between, the calls made for
\* one key inside its window resolve with consecutive counts 1, 2, 3, ...:
\* a call preceded by n calls of its window resolves with n + 1.  (The store
\* is large enough not to rotate.)
C24_PerKeyMonotonicity ==
    \A j \in 1..Len(calls) :
        (/\ store.max > Len(calls)
         /\ \A i \in EarlierCalls(j) \cup {j} :
               /\ calls[i].ttl = calls[j].ttl
               /\ calls[i].at - calls[FirstCall(j)].at < calls[j].ttl * 1000) =>
            calls[j].promise = Fulfilled(Num(Cardinality(EarlierCalls(j)) + 1))

\* C30: every increment(key, 0) resolves with 1, repeated calls for one key
\* included.
C30_ZeroTtlAlwaysExpired ==
    \A j \in 1..Len(calls) :
        calls[j].ttl = 0 => calls[j].promise = Fulfilled(Num(1))

(***************************************************************************)
(* RedisStore: the server, the increxpr script and the clients.            *)
(***************************************************************************)
\* A key without an expiry.
NoExpiry == [persistent |-> TRUE]

ConnectionError == [error |-> "Connection is closed."]

\* An error reply of the server: it refuses to run the command.
ReplyError == [error |-> "OOM command not allowed when used memory > 'maxmemory'."]

RedisStore_increment_Swallow(command) == Fulfilled(awaitTo(command)[2])

\* RedisStore.js 59-67: the promise of increment, given the settled promise
\* of the command.
RedisStore_increment(command) ==
    LET res == awaitTo(command)
        err == res[1]
        current == res[2]
    IN IF Truthy(err) THEN Rejected(err) ELSE Fulfilled(current)

\* redis.call('incr', key): the value after the increment and the keys after
\* it.  A missing key is created as 1, without an expiry.
Redis_incr(db, key) ==
    IF MapHas(db, key)
    THEN LET current == db[key].value + 1
         IN [current |-> current,
             db |-> MapSet(db, key, [db[key] EXCEPT !.value = current])]
    ELSE [current |-> 1, db |-> MapSet(db, key, [value |-> 1, ttl |-> NoExpiry])]

\* redis.call('expire', key, seconds): the keys after it.  A timeout that is
\* not positive deletes the key.
Redis_expire(db, key, seconds) ==
    IF ~MapHas(db, key)
    THEN db
    ELSE IF seconds <= 0
    THEN MapDelete(db, key)
    ELSE MapSet(db, key, [db[key] EXCEPT !.ttl = [seconds |-> seconds]])

increxpr_ReturnsOld(db, key, ttl) ==
    LET incr == Redis_incr(db, key)
    IN [current |-> incr.current - 1,
        db |-> IF incr.current = 1 THEN Redis_expire(incr.db, key, ttl) ELSE incr.db]

increxpr_IncrOnly(db, key, ttl) == Redis_incr(db, key)

increxpr_AlwaysExpire(db, key, ttl) ==
    LET incr == Redis_incr(db, key)
    IN [current |-> incr.current, db |-> Redis_expire(incr.db, key, ttl)]

\* The lua script increxpr with KEYS[1] = key and ARGV[1] = ttl: what it
\* returns and the keys after it.  The server runs a script as one step.
increxpr(db, key, ttl) ==
    LET incr == Redis_incr(db, key)
    IN IF incr.current = 1
       THEN [current |-> incr.current, db |-> Redis_expire(incr.db, key, ttl)]
       ELSE incr

\* One second passes on the server: the keys whose time is up are deleted.
Redis_tick(db) ==
    LET live == {k \in DOMAIN db : db[k].ttl = NoExpiry \/ db[k].ttl.seconds > 1}
    IN [k \in live |-> IF db[k].ttl = NoExpiry
                       THEN db[k]
                       ELSE [db[k] EXCEPT !.ttl = [seconds |-> @.seconds - 1]]]

RedisKeys == {<<"test-key">>}
RedisTtls == 0..MaxRedisTtl
\* The processes that share the server, each with its RedisStore.
Clients == <<"app-1", "app-2">>

NewRedisCall ==
    [pc |-> "new", client |-> "", key |-> <<>>, ttl |-> 0, command |-> "none",
     reply |-> 0, gen |-> 0, at |-> 0, promise |-> Null, failure |-> Null]

InitRedis ==
    /\ store = LocalStore_new(DefaultMax)
    /\ clock = 0
    /\ calls = <<>>
    /\ config = Null
    /\ testStore = LocalTestStore_new
    /\ reqs = <<>>
    /\ last = Null
    /\ overlap = FALSE
    /\ incLog = NewMap
    /\ rdb = NewMap
    /\ rgen = [k \in RedisKeys |-> 0]
    /\ rconn = [c \in Range(Clients) |-> "ready"]
    /\ rcalls = [i \in 1..MaxRedisCalls |-> NewRedisCall]
    /\ NoRoutes

\* RedisStore.increment(key, ttl) on the store of `client`: the command is
\* sent and `await to(...)` suspends; on a closed connection the command is
\* rejected at once.  The callers of one key pass one ttl, the window of the
\* key's route; clients are interchangeable, a new one is the next of Clients.
RedisIncrement(i, client, key, ttl) ==
    /\ rcalls[i].pc = "new"
    /\ \A j \in 1..(i - 1) :
          /\ rcalls[j].pc # "new"
          /\ rcalls[j].key = key => rcalls[j].ttl = ttl
    /\ \E n \in DOMAIN Clients :
          /\ client = Clients[n]
          /\ n <= Cardinality({rcalls[j].client : j \in 1..(i - 1)}) + 1
    /\ rcalls' = [rcalls EXCEPT ![i] =
          IF rconn[client] = "ready"
          THEN [@ EXCEPT !.pc = "waiting", !.client = client, !.key = key,
                         !.ttl = ttl, !.command = "queued"]
          ELSE [@ EXCEPT !.pc = "done", !.client = client, !.key = key,
                         !.ttl = ttl, !.failure = ConnectionError,
                         !.promise = RedisStore_increment(Rejected(ConnectionError))]]
    /\ UNCHANGED <<rdb, rgen, rconn, store, clock, calls, limiterVars, routeVars>>

\* The keys that exist in db and not in db1.
Deleted(db, db1) == DOMAIN db \ DOMAIN db1

\* The server runs the script of call i.
RedisExecute(i) ==
    /\ rcalls[i].command = "queued"
    /\ LET res == increxpr(rdb, rcalls[i].key, rcalls[i].ttl)
           gone == {rcalls[i].key} \ DOMAIN res.db
       IN /\ rdb' = res.db
          /\ rgen' = [k \in DOMAIN rgen |-> IF k \in gone THEN rgen[k] + 1 ELSE rgen[k]]
          /\ rcalls' = [rcalls EXCEPT ![i] =
                [@ EXCEPT !.command = "executed", !.reply = res.current,
                          !.gen = rgen[rcalls[i].key], !.at = clock]]
    /\ UNCHANGED <<rconn, store, clock, calls, limiterVars, routeVars>>

\* The server refuses the command of call i and its error reply arrives:
\* increment settles (RedisStore.js 60-64).  A refusal whose reply is lost
\* with the connection is a command that never ran, see RedisDisconnect.
RedisRefuse(i) ==
    /\ rcalls[i].pc = "waiting"
    /\ rcalls[i].command = "queued"
    /\ rcalls' = [rcalls EXCEPT ![i] =
          [@ EXCEPT !.pc = "done", !.command = "refused", !.failure = ReplyError,
                    !.promise = RedisStore_increment(Rejected(ReplyError))]]
    /\ UNCHANGED <<rdb, rgen, rconn, store, clock, calls, limiterVars, routeVars>>

\* RedisStore.js 60-66: the reply of call i arrives and increment returns it.
RedisReceive(i) ==
    /\ rcalls[i].pc = "waiting"
    /\ rcalls[i].command = "executed"
    /\ rcalls' = [rcalls EXCEPT ![i] =
          [@ EXCEPT !.pc = "done",
                    !.promise = RedisStore_increment(Fulfilled(Num(rcalls[i].reply)))]]
    /\ UNCHANGED <<rdb, rgen, rconn, store, clock, calls, limiterVars, routeVars>>

\* The connection of `client` is closed or its process crashes: the calls
\* that wait for a reply are rejected (RedisStore.js 60-64).  A command the
\* server has not run yet stays queued: it still arrives, or never runs.
RedisDisconnect(client) ==
    /\ rconn[client] = "ready"
    /\ rconn' = [rconn EXCEPT ![client] = "end"]
    /\ rcalls' = [i \in DOMAIN rcalls |->
          IF rcalls[i].client = client /\ rcalls[i].pc = "waiting"
          THEN [rcalls[i] EXCEPT !.pc = "done", !.failure = ConnectionError,
                     !.promise = RedisStore_increment(Rejected(ConnectionError))]
          ELSE rcalls[i]]
    /\ UNCHANGED <<rdb, rgen, store, clock, calls, limiterVars, routeVars>>

\* One second passes on the server.
RedisTick ==
    /\ rdb' = Redis_tick(rdb)
    /\ rdb' # rdb
    /\ rgen' = [k \in DOMAIN rgen |->
                   IF k \in Deleted(rdb, rdb') THEN rgen[k] + 1 ELSE rgen[k]]
    /\ UNCHANGED <<rconn, rcalls, store, clock, calls, limiterVars, routeVars>>

NextRedis ==
    \/ \E i \in 1..MaxRedisCalls, client \in Range(Clients), key \in RedisKeys,
          ttl \in RedisTtls : RedisIncrement(i, client, key, ttl)
    \/ \E i \in 1..MaxRedisCalls : RedisExecute(i)
    \/ \E i \in 1..MaxRedisCalls : RedisRefuse(i)
    \/ \E i \in 1..MaxRedisCalls : RedisReceive(i)
    \/ \E client \in Range(Clients) : RedisDisconnect(client)
    \/ RedisTick

SpecRedis == InitRedis /\ [][NextRedis]_vars

(***************************************************************************)
(* Properties of the RedisStore.                                           *)
(***************************************************************************)
\* The calls whose script the server has run.
Executed == {i \in 1..MaxRedisCalls : rcalls[i].command = "executed"}

\* The calls that ran in the same lifetime of the same key as call i.
SameLifetime(i) ==
    {j \in 1..MaxRedisCalls : /\ rcalls[j].command = "executed"
                              /\ rcalls[j].key = rcalls[i].key
                              /\ rcalls[j].gen = rcalls[i].gen}

\* C6: the increment calls that the server has run in one lifetime of a key,
\* whichever clients issued them and however they interleave, got exactly the
\* counts 1..K, no two of them the same count; an increment that resolves
\* resolves with the count its script returned.
C6_RedisRaceFreedom ==
    /\ \A i \in Executed :
          LET lifetime == SameLifetime(i)
          IN /\ {rcalls[j].reply : j \in lifetime} = 1..Cardinality(lifetime)
             /\ \A j \in lifetime : rcalls[j].reply = rcalls[i].reply => j = i
    /\ \A i \in 1..MaxRedisCalls :
          (rcalls[i].pc = "done" /\ rcalls[i].promise.state = "fulfilled") =>
              /\ i \in Executed
              /\ rcalls[i].promise.value = Num(rcalls[i].reply)

\* Two clients had their calls for one key in flight together and got 1, 2.
C6_Witness ==
    \E i, j \in 1..MaxRedisCalls :
        /\ rcalls[i].client # rcalls[j].client
        /\ rcalls[i].key = rcalls[j].key
        /\ rcalls[i].gen = rcalls[j].gen
        /\ rcalls[i].pc = "waiting" /\ rcalls[i].command = "executed"
        /\ rcalls[j].pc = "waiting" /\ rcalls[j].command = "executed"
        /\ rcalls[i].reply = 2
        /\ rcalls[j].reply = 1
        /\ i < j

\* C7: every key of the server has an expiry, in every state.
C7_RedisKeysExpire == \A key \in DOMAIN rdb : rdb[key].ttl # NoExpiry

\* A key lives on after the client whose call created it was disconnected
\* before the reply arrived.
C7_Witness ==
    \E i \in Executed :
        /\ rcalls[i].reply = 1
        /\ rcalls[i].pc = "done"
        /\ rcalls[i].promise = Rejected(ConnectionError)
        /\ rconn[rcalls[i].client] = "end"
        /\ rcalls[i].key \in DOMAIN rdb
        /\ rcalls[i].gen = rgen[rcalls[i].key]

\* C20: an increment whose command failed, because the connection was closed
\* or because the server replied with an error, rejects with that very
\* error; an increment that resolves resolves with the count the server
\* returned, never with undefined.
C20_RedisFailsLoudly ==
    \A i \in 1..MaxRedisCalls :
        rcalls[i].pc = "done" =>
            /\ rcalls[i].failure # Null => rcalls[i].promise = Rejected(rcalls[i].failure)
            /\ rcalls[i].promise.state = "fulfilled" =>
                   /\ rcalls[i].failure = Null
                   /\ rcalls[i].command = "executed"
                   /\ rcalls[i].promise.value = Num(rcalls[i].reply)
            /\ rcalls[i].command # "executed" => rcalls[i].promise.state = "rejected"

\* One increment was refused by the server and another found the connection
\* closed.
C20_Witness ==
    \E i, j \in 1..MaxRedisCalls :
        /\ rcalls[i].pc = "done"
        /\ rcalls[i].command = "refused"
        /\ rcalls[i].promise = Rejected(ReplyError)
        /\ rcalls[j].pc = "done"
        /\ rcalls[j].command = "none"
        /\ rcalls[j].promise = Rejected(ConnectionError)

(***************************************************************************)
(* One RedisStore over windows of several seconds                          *)
(* (test/LocalStore.test.js 93-110): `clock` counts the seconds.           *)
(***************************************************************************)
MaxWindowTtl == 2

WindowTtls == 0..MaxWindowTtl

\* One second passes, on the server and for the caller.
WindowTick ==
    /\ rdb' = Redis_tick(rdb)
    /\ rdb' # rdb
    /\ rgen' = [k \in DOMAIN rgen |->
                   IF k \in Deleted(rdb, rdb') THEN rgen[k] + 1 ELSE rgen[k]]
    /\ clock' = clock + 1
    /\ UNCHANGED <<rconn, rcalls, store, calls, limiterVars, routeVars>>

NextRedisWindow ==
    \/ \E i \in 1..MaxRedisCalls, key \in RedisKeys, ttl \in WindowTtls :
          RedisIncrement(i, Clients[1], key, ttl)
    \/ \E i \in 1..MaxRedisCalls : RedisExecute(i)
    \/ \E i \in 1..MaxRedisCalls : RedisReceive(i)
    \/ WindowTick

SpecRedisWindow == InitRedis /\ [][NextRedisWindow]_vars

\* C28: the call that gets 1 starts the window of its key: the key then
\* expires ttl seconds after that call, whatever increments follow, every
\* later call of the window is run less than ttl seconds after it and gets
\* more than 1, and a call run after the key is gone gets 1 again; an
\* increment resolves with the value after the increment.
C28_WindowAnchoring ==
    /\ \A i \in Executed :
          /\ \E f \in SameLifetime(i) : rcalls[f].reply = 1
          /\ \A f \in SameLifetime(i) :
                rcalls[f].reply = 1 =>
                    \/ i = f
                    \/ /\ rcalls[i].reply > 1
                       /\ rcalls[i].at >= rcalls[f].at
                       /\ rcalls[i].at - rcalls[f].at < rcalls[f].ttl
          /\ rcalls[i].pc = "done" => rcalls[i].promise = Fulfilled(Num(rcalls[i].reply))
    /\ \A key \in DOMAIN rdb :
          \E f \in Executed :
              /\ rcalls[f].key = key
              /\ rcalls[f].gen = rgen[key]
              /\ rcalls[f].reply = 1
              /\ rdb[key].ttl = [seconds |-> rcalls[f].ttl - (clock - rcalls[f].at)]
              /\ rdb[key].value = Cardinality(SameLifetime(f))

\* A key of a window of two seconds was incremented again one second after
\* its first hit, was gone two seconds after it, and the next call got 1.
C28_Witness ==
    \E f, i, n \in Executed :
        /\ rcalls[f].ttl = 2
        /\ rcalls[f].reply = 1
        /\ i \in SameLifetime(f)
        /\ rcalls[i].reply = 2
        /\ rcalls[i].at = rcalls[f].at + 1
        /\ rcalls[n].key = rcalls[f].key
        /\ rcalls[n].gen = rcalls[f].gen + 1
        /\ rcalls[n].reply = 1
        /\ rcalls[n].at = rcalls[f].at + 2

(***************************************************************************)
(* Progress of RedisStore.increment.  The event loop of the caller runs    *)
(* the continuation of an increment whose reply has arrived, and time      *)
(* passes; nothing makes the server run a command or close a connection.   *)
(***************************************************************************)
RedisFairness ==
    /\ \A i \in 1..MaxRedisCalls : WF_vars(RedisReceive(i))
    /\ WF_vars(RedisTick)

SpecRedisFair == SpecRedis /\ RedisFairness

\* C29: an increment that waits for the server eventually settles, with a
\* count or with an error of the backend.
C29_IncrementNeverHangs ==
    \A i \in 1..MaxRedisCalls :
        (rcalls[i].pc = "waiting") ~> (rcalls[i].pc = "done")

(***************************************************************************)
(* The plugin: one rate-limited route and its preHandler.                  *)
(***************************************************************************)
StoreKinds == {"LocalStore", "LocalTestStore", "TestErrorStore"}
Ips == <<(<<"127.0.0.1">>), (<<"10.0.0.2">>)>>
Limits == 0..MaxLimit

\* The window of the route: it expires at the last instant of the run.
Per == MaxTime

routeConfig == [method |-> <<"GET">>, url |-> <<"/test">>]

\* The default storeKeyGenerator.
storeKeyGenerator(request, methodUrl) ==
    <<"fastify-proper-limiter", ":">> \o methodUrl.method \o <<":">> \o methodUrl.url
        \o <<":">> \o request.ip

\* The default errorResponseGenerator.
errorResponseGenerator(request, context) ==
    [error |-> "Too Many Requests", statusCode |-> 403,
     message |-> "Rate limit exceeded for this route. Try again later."]

\* What a callback of the caller does other than return a value.
Throws == [callback |-> "throws"]
ReturnsPromise == [callback |-> "returns a promise"]

IgnoreError == [error |-> "ignore failed"]
MaxError == [error |-> "max failed"]

\* config.store.increment(storeKey, config.per): the promise it returns and
\* the stores after the call.
Store_increment(kind, local, test, key, ttl, dateNow) ==
    IF kind = "LocalStore"
    THEN LET r == LocalStore_increment(local, key, ttl, dateNow)
         IN [promise |-> r.promise, store |-> r.store, testStore |-> test]
    ELSE IF kind = "LocalTestStore"
    THEN LET r == LocalTestStore_increment(test, key, ttl, dateNow)
         IN [promise |-> r.promise, store |-> local, testStore |-> r.store]
    ELSE [promise |-> TestErrorStore_increment, store |-> local, testStore |-> test]

Whitelisted_Never(isWhitelisted) == FALSE

\* plugin.js 229-231: `if (isWhitelisted) return`.
Whitelisted(isWhitelisted) == Truthy(isWhitelisted)

LimitNotReached_Strict(current, max) ==
    IF IsNumber(current) /\ IsNumber(max)
    THEN current.number < max.number
    ELSE FALSE

\* `current <= max` on a count and a resolved max (undefined compares false).
LimitNotReached(current, max) ==
    IF IsNumber(current) /\ IsNumber(max)
    THEN current.number <= max.number
    ELSE FALSE

\* A request that has not reached the preHandler.
NewRequest ==
    [pc |-> "new", ip |-> <<>>, storeKey |-> <<>>, promise |-> Null,
     isWhitelisted |-> Undefined, current |-> Undefined, max |-> Undefined,
     err |-> Null, callbackError |-> Null,
     verdict |-> "none", thrown |-> Null, context |-> Null,
     rank |-> 0, ignoreCalls |-> 0, incrementCalls |-> 0,
     maxCalls |-> 0, generatorCalls |-> 0,
     maxArgs |-> Null, resolvedMax |-> Undefined, incrementArgs |-> Null]

\* The plugin is registered and the route's final config is valid: the store
\* is the default LocalStore or a store given in the options.  skipOnError is
\* read only when increment fails (plugin.js 248-254): the LocalTestStore,
\* which never fails, is configured with the default.
Init ==
    /\ store = LocalStore_new(DefaultMax)
    /\ clock = 0
    /\ calls = <<>>
    /\ testStore = LocalTestStore_new
    /\ \E kind \in StoreKinds, skip \in BOOLEAN, per \in {Per},
          max \in {Num(n) : n \in Limits} \cup {Function},
          ignore \in {Null, Function} :
          /\ config = [store |-> kind, skipOnError |-> skip, per |-> per,
                       max |-> max, ignore |-> ignore]
          /\ kind = "LocalTestStore" => ~skip
    /\ reqs = [r \in 1..MaxReqs |-> NewRequest]
    /\ last = Null
    /\ overlap = FALSE
    /\ incLog = NewMap
    /\ NoRedis
    /\ NoRoutes

\* The preHandler of request r settles; the host takes over the request.
Responded(rec) == [pc |-> "done"]

Finish(r, rec) ==
    /\ reqs' = [reqs EXCEPT ![r] = Responded(rec)]
    /\ last' = rec

\* The preHandler returns: the request proceeds to the route handler.
Return(r, rec) ==
    /\ Finish(r, [rec EXCEPT !.pc = "done", !.verdict = "Allow"])
    /\ UNCHANGED <<store, testStore, incLog>>

\* The preHandler throws an error that is not the rate limit rejection.
Throw(r, rec, err) ==
    /\ Finish(r, [rec EXCEPT !.pc = "done", !.verdict = "Error", !.thrown = err])
    /\ UNCHANGED <<store, testStore, incLog>>

\* How many calls of store.increment were made with `key` so far.
Rank(log, key) == IF MapHas(log, key) THEN log[key] ELSE 0

\* plugin.js 234-246: store.increment is called and `await to(...)` suspends.
CallIncrement(r, rec) ==
    LET res == Store_increment(config.store, store, testStore, rec.storeKey,
                               config.per, DateNow(clock))
    IN /\ store' = res.store
       /\ testStore' = res.testStore
       /\ incLog' = MapSet(incLog, rec.storeKey, Rank(incLog, rec.storeKey) + 1)
       /\ last' = last
       /\ reqs' = [reqs EXCEPT ![r] =
                      [rec EXCEPT !.pc = "awaitIncrement", !.promise = res.promise,
                                  !.rank = Rank(incLog, rec.storeKey) + 1,
                                  !.incrementCalls = @ + 1,
                                  !.incrementArgs = <<rec.storeKey, config.per>>]]

DenyContext_ConfigMax(max) ==
    [max |-> config.max, per |-> config.per,
     method |-> routeConfig.method, url |-> routeConfig.url]

\* plugin.js 281-286: the context given to errorResponseGenerator.
DenyContext(max) ==
    [max |-> max, per |-> config.per,
     method |-> routeConfig.method, url |-> routeConfig.url]

Decide_Refund(r, rec, max) ==
    IF LimitNotReached(rec.current, max)
    THEN Return(r, [rec EXCEPT !.max = max])
    ELSE LET context == DenyContext(max)
         IN /\ Finish(r, [rec EXCEPT !.pc = "done", !.verdict = "Deny", !.max = max,
                                        !.context = context,
                                        !.thrown = errorResponseGenerator(rec, context),
                                        !.generatorCalls = @ + 1])
            /\ testStore' = LocalTestStore_new
            /\ UNCHANGED <<store, incLog>>

\* plugin.js 272-287: the verdict on a count and a resolved max.
Decide(r, rec, max) ==
    IF LimitNotReached(rec.current, max)
    THEN Return(r, [rec EXCEPT !.max = max])
    ELSE LET context == DenyContext(max)
         IN /\ Finish(r, [rec EXCEPT !.pc = "done", !.verdict = "Deny", !.max = max,
                                        !.context = context,
                                        !.thrown = errorResponseGenerator(rec, context),
                                        !.generatorCalls = @ + 1])
            /\ UNCHANGED <<store, testStore, incLog>>

\* The requests that are in the preHandler.
InFlight == {q \in 1..MaxReqs : reqs[q].pc \notin {"new", "done"}}

\* The preHandlers whose awaited promise has settled: their continuations are
\* queued as microtasks.  The promise of an in-process store is settled when
\* increment returns it.
Ready == {q \in 1..MaxReqs : reqs[q].pc = "awaitIncrement"}

\* plugin.js 214-232: a request from `ip` reaches the preHandler.  `ignored`
\* is what config.ignore does for this request, when it is set.  The event
\* loop hands over a new request only when no microtask is queued.  Callers
\* are interchangeable: the first request comes from the first address.
Start(r, ip, ignored) ==
    /\ reqs[r].pc = "new"
    /\ Ready = {}
    /\ \A q \in 1..(r - 1) : reqs[q].pc # "new"
    /\ r = 1 => ip = Ips[1]
    /\ overlap' = (overlap \/ InFlight # {})
    /\ LET rec == [reqs[r] EXCEPT !.ip = ip,
                       !.storeKey = storeKeyGenerator([ip |-> ip], routeConfig)]
           called == [rec EXCEPT !.ignoreCalls = @ + 1]
       IN IF ~Truthy(config.ignore)
          THEN CallIncrement(r, rec)
          ELSE CASE ignored = Throws ->
                        Throw(r, [called EXCEPT !.callbackError = IgnoreError], IgnoreError)
                 [] ignored = ReturnsPromise ->
                        /\ reqs' = [reqs EXCEPT ![r] = [called EXCEPT !.pc = "awaitIgnore"]]
                        /\ UNCHANGED <<store, testStore, incLog, last>>
                 [] Whitelisted(ignored) ->
                        Return(r, [called EXCEPT !.isWhitelisted = ignored])
                 [] OTHER ->
                        CallIncrement(r, [called EXCEPT !.isWhitelisted = ignored])
    /\ UNCHANGED <<clock, calls, config, redisVars, routeVars>>

\* plugin.js 226-232: the promise of config.ignore has settled as `promise`.
ResumeIgnore(r, promise) ==
    /\ reqs[r].pc = "awaitIgnore"
    /\ LET isWhitelisted == awaitTo(promise)[2]
           rec == [reqs[r] EXCEPT !.isWhitelisted = isWhitelisted,
                                  !.callbackError = Settled(promise)]
       IN IF Whitelisted(isWhitelisted)
          THEN Return(r, rec)
          ELSE CallIncrement(r, rec)
    /\ UNCHANGED <<clock, calls, config, overlap, redisVars, routeVars>>

HandleStoreError_Swallow(r, rec, err) == Return(r, rec)

\* plugin.js 248-254: store.increment failed with `err`.
HandleStoreError(r, rec, err) ==
    IF config.skipOnError
    THEN Return(r, rec)
    ELSE Throw(r, rec, err)

\* plugin.js 246-270: the promise of store.increment has settled.  `resolved`
\* is what config.max does for this request, when it is a function.
ResumeIncrement(r, resolved) ==
    /\ reqs[r].pc = "awaitIncrement"
    /\ LET res == awaitTo(reqs[r].promise)
           err == res[1]
           rec == [reqs[r] EXCEPT !.err = err, !.current = res[2], !.promise = Null]
           called == [rec EXCEPT !.maxCalls = @ + 1,
                                 !.maxArgs = <<[ip |-> rec.ip], rec.storeKey>>]
       IN IF Truthy(err)
          THEN HandleStoreError(r, rec, err)
          ELSE IF IsNumber(config.max)
          THEN Decide(r, rec, config.max)
          ELSE CASE resolved = Throws ->
                        Throw(r, [called EXCEPT !.callbackError = MaxError], MaxError)
                 [] resolved = ReturnsPromise ->
                        /\ reqs' = [reqs EXCEPT ![r] = [called EXCEPT !.pc = "awaitMax"]]
                        /\ UNCHANGED <<store, testStore, incLog, last>>
                 [] OTHER -> Decide(r, [called EXCEPT !.resolvedMax = resolved], resolved)
    /\ UNCHANGED <<clock, calls, config, overlap, redisVars, routeVars>>

\* What a settled promise was fulfilled with, if it was.
Fulfilment(promise) == IF promise.state = "fulfilled" THEN promise.value ELSE Undefined

ResumeMax_NotAwaited(r, promise) ==
    /\ reqs[r].pc = "awaitMax"
    /\ Decide(r, [reqs[r] EXCEPT !.callbackError = Settled(promise),
                                 !.resolvedMax = Fulfilment(promise)],
              promise)
    /\ UNCHANGED <<clock, calls, config, overlap, redisVars, routeVars>>

\* plugin.js 267-287: the promise of config.max has settled as `promise`.
ResumeMax(r, promise) ==
    /\ reqs[r].pc = "awaitMax"
    /\ Decide(r, [reqs[r] EXCEPT !.callbackError = Settled(promise),
                                 !.resolvedMax = Fulfilment(promise)],
              awaitTo(promise)[2])
    /\ UNCHANGED <<clock, calls, config, overlap, redisVars, routeVars>>

\* One second passes.  Only store.increment reads the time, and the
\* continuation of a settled increment is a microtask of the turn that made
\* the call: the second passes before the call or after the continuation.
Tick ==
    /\ clock < MaxTime
    /\ Ready = {}
    /\ clock' = clock + 1
    /\ UNCHANGED <<store, calls, limiterVars, redisVars, routeVars>>

IgnoreOutcomes == {Bool(TRUE), Bool(FALSE), Throws, ReturnsPromise}
IgnorePromises == {Fulfilled(Bool(TRUE)), Fulfilled(Bool(FALSE)), Rejected(IgnoreError)}
MaxOutcomes == {Num(n) : n \in Limits} \cup {Throws, ReturnsPromise}
MaxPromises == {Fulfilled(Num(n)) : n \in Limits} \cup {Rejected(MaxError)}

\* What a callback can do when it is called; a config field that is not a
\* function is never called.
Outcomes(field, outcomes) == IF IsFunction(field) THEN outcomes ELSE {Undefined}

Next ==
    \/ \E r \in 1..MaxReqs, ip \in Range(Ips),
          ignored \in Outcomes(config.ignore, IgnoreOutcomes) : Start(r, ip, ignored)
    \/ \E r \in 1..MaxReqs, promise \in IgnorePromises : ResumeIgnore(r, promise)
    \/ \E r \in 1..MaxReqs,
          resolved \in Outcomes(config.max, MaxOutcomes) : ResumeIncrement(r, resolved)
    \/ \E r \in 1..MaxReqs, promise \in MaxPromises : ResumeMax(r, promise)
    \/ Tick

Spec == Init /\ [][Next]_vars

(***************************************************************************)
(* Properties of the preHandler.                                           *)
(***************************************************************************)
\* The run so far lies inside the first window of every key.
InWindow == DateNow(clock) < config.per * 1000

\* No two requests were in flight at the same time, and one caller made the
\* requests that were counted.
Sequential ==
    /\ InFlight = {}
    /\ ~overlap
    /\ DOMAIN incLog \subseteq {storeKeyGenerator([ip |-> Ips[1]], routeConfig)}

ThresholdVerdict(n, max) == IF n <= max.number THEN "Allow" ELSE "Deny"

\* C1: with a static max M, a request whose increment returned a count is
\* allowed exactly when that count is <= M and is denied otherwise; with the
\* counting LocalTestStore and inside one window, the n-th request counted for
\* a key is allowed when n <= M and denied when n > M.
C1_DecisionThreshold ==
    (last # Null /\ IsNumber(config.max) /\ IsNumber(last.current)) =>
        /\ last.verdict = ThresholdVerdict(last.current.number, config.max)
        /\ (config.store = "LocalTestStore" /\ InWindow) =>
               last.verdict = ThresholdVerdict(last.rank, config.max)

C1_Witness ==
    /\ last # Null
    /\ config.store = "LocalTestStore"
    /\ InWindow
    /\ IsNumber(config.max)
    /\ config.max.number >= 1
    /\ last.rank = config.max.number + 1
    /\ last.verdict = "Deny"

\* C2: with the default LocalStore and a static max M, sequential requests of
\* one caller inside one window get Allow for the first M and Deny for the
\* next, and none of them ends in an error of the store.
C2_DefaultStoreSequence ==
    (/\ last # Null
     /\ config.store = "LocalStore"
     /\ IsNumber(config.max)
     /\ config.ignore = Null
     /\ InWindow
     /\ Sequential
     /\ last.rank > 0) =>
        /\ ~Truthy(last.err)
        /\ last.verdict = ThresholdVerdict(last.rank, config.max)

\* The preHandler of request r settles in this step.
Finishes(r) == reqs[r].pc # "done" /\ reqs'[r].pc = "done"

\* C8: a request for which the ignore predicate yields true, synchronously or
\* through a promise, is allowed, store.increment is not called for it and the
\* step leaves every counter as it was; so, with the counting LocalTestStore
\* inside one window, a counted request gets as its count the number of
\* counted requests for its key, bypassed requests left out.
C8_BypassSkipsCounting ==
    /\ [][\A r \in 1..MaxReqs :
            (Finishes(r) /\ Truthy(last'.isWhitelisted)) =>
                /\ last'.verdict = "Allow"
                /\ last'.incrementCalls = 0
                /\ store' = store
                /\ testStore' = testStore
                /\ incLog' = incLog]_vars
    /\ [](\A r \in 1..MaxReqs :
            (/\ config.store = "LocalTestStore"
             /\ InWindow
             /\ reqs[r].pc = "awaitIncrement") =>
                awaitTo(reqs[r].promise)[2] = Num(reqs[r].rank))

C8_Witness ==
    /\ last # Null
    /\ Truthy(last.isWhitelisted)
    /\ last.verdict = "Allow"
    /\ config.store = "LocalTestStore"
    /\ InWindow
    /\ reqs[1].pc = "done"
    /\ reqs[2].pc = "awaitIncrement"
    /\ ~overlap
    /\ reqs[2].ip = last.ip
    /\ reqs[2].promise = Fulfilled(Num(1))

\* C9: when store.increment fails, the request is allowed if skipOnError is
\* true; if it is false the preHandler throws the store's own error, which is
\* not the rate limit rejection, and neither the max resolver nor
\* errorResponseGenerator is called.
C9_BackendFailurePolicy ==
    (last # Null /\ Truthy(last.err)) =>
        IF config.skipOnError
        THEN last.verdict = "Allow"
        ELSE /\ last.verdict = "Error"
             /\ last.thrown = last.err
             /\ last.thrown # errorResponseGenerator(last, last.context)
             /\ last.maxCalls = 0
             /\ last.generatorCalls = 0

C9_Witness ==
    /\ last # Null
    /\ config.store = "TestErrorStore"
    /\ ~config.skipOnError
    /\ last.err = TestError
    /\ last.verdict = "Error"

\* C10: a request whose ignore predicate or max resolver failed, by a throw or
\* by a rejected promise, ends with that failure thrown to the host: it is
\* neither allowed nor denied.
C10_CallbackFailuresPropagate ==
    (last # Null /\ Truthy(last.callbackError)) =>
        /\ last.verdict = "Error"
        /\ last.thrown = last.callbackError

C19_DynamicMax ==
    (last # Null /\ IsFunction(config.max) /\ IsNumber(last.current)) =>
        /\ last.maxCalls = 1
        /\ last.maxArgs = <<[ip |-> last.ip],
                            storeKeyGenerator([ip |-> last.ip], routeConfig)>>
        /\ IsNumber(last.resolvedMax) =>
               last.verdict = ThresholdVerdict(last.current.number, last.resolvedMax)

\* A first request is denied because the promise of the resolver gave 0,
\* while the resolver gave another request a higher max.
C19_Witness ==
    /\ last # Null
    /\ IsFunction(config.max)
    /\ last.current = Num(1)
    /\ last.resolvedMax = Num(0)
    /\ last.callbackError = Null
    /\ last.verdict = "Deny"
    /\ \E r \in 1..MaxReqs :
          /\ reqs[r].pc = "awaitMax"
          /\ reqs[r].current = Num(1)

\* The requests that are in the preHandler or were the last to leave it.
RequestRecords == {reqs[r] : r \in InFlight} \cup (IF last = Null THEN {} ELSE {last})

\* The value is one a callback resolved to, itself or through its promise.
ResolvedFalsy(v) == v # Undefined /\ ~Truthy(v)

\* C26: in one request the key is computed first; store.increment is started
\* only after the ignore predicate, when there is one, has resolved to a
\* falsy value; the max resolver is called only after increment has
\* succeeded, and errorResponseGenerator only after max is resolved.
C26_StepOrdering ==
    \A rec \in RequestRecords :
        /\ rec.ignoreCalls + rec.incrementCalls > 0 => rec.storeKey # <<>>
        /\ (rec.pc = "awaitIncrement" /\ Truthy(config.ignore)) =>
               /\ rec.ignoreCalls = 1
               /\ rec.callbackError = Null
               /\ ResolvedFalsy(rec.isWhitelisted)
        /\ rec.maxCalls > 0 =>
               /\ rec.incrementCalls = 1
               /\ rec.err = Null
               /\ IsNumber(rec.current)
        /\ rec.generatorCalls > 0 =>
               /\ rec.incrementCalls = 1
               /\ IsNumber(rec.max)
               /\ IsFunction(config.max) =>
                      rec.maxCalls = 1 /\ rec.resolvedMax = rec.max

\* The request was not let through by the ignore predicate, and the
\* predicate did not abort it by throwing.
Counted(rec) == ~Truthy(rec.isWhitelisted) /\ rec.thrown # IgnoreError

\* C27: a request that is not bypassed has called store.increment exactly
\* once, with (storeKey, per), when it is allowed, denied or aborted, and no
\* request calls it twice; no increment is given back: the increments made
\* for a key are never fewer than the rank of a request, and with the
\* counting LocalTestStore inside one window the counter of a key is the
\* number of increments made for it, so that a denied request got that
\* number as its count, the increments of denied requests included.
C27_CountedRequestsConsumeQuota ==
    /\ \A rec \in RequestRecords :
          /\ rec.incrementCalls <= 1
          /\ Rank(incLog, rec.storeKey) >= rec.rank
          /\ rec.incrementCalls = 1 => rec.incrementArgs = <<rec.storeKey, config.per>>
    /\ (last # Null /\ Counted(last)) =>
          /\ last.incrementCalls = 1
          /\ (/\ config.store = "LocalTestStore"
              /\ InWindow
              /\ last.verdict = "Deny") =>
                 last.current = Num(last.rank)
    /\ (config.store = "LocalTestStore" /\ InWindow) =>
          /\ DOMAIN testStore.val = DOMAIN incLog
          /\ \A key \in DOMAIN incLog : testStore.val[key] = incLog[key]

\* With max = 0 the second request of a caller is denied with count 2, after
\* the first was denied with count 1.
C27_Witness ==
    /\ last # Null
    /\ config.store = "LocalTestStore"
    /\ config.max = Num(0)
    /\ InWindow
    /\ ~overlap
    /\ last.verdict = "Deny"
    /\ last.rank = 2
    /\ last.current = Num(2)
    /\ testStore.val[last.storeKey] = 2

(***************************************************************************)
(* Registration: the plugin's options and the onRoute hook.                *)
(***************************************************************************)
Fields ==
    {"errorResponseGenerator", "ignore", "max", "per", "skipOnError", "store",
     "storeKeyGenerator"}

\* A store instance, by its class.
StoreInstance(class) == [store |-> class]

\* plugin.js 32-101: the defaults of the global options.
DefaultOptions ==
    [errorResponseGenerator |-> Fn("errorResponseGenerator"),
     ignore |-> Null,
     max |-> Num(300),
     per |-> Num(60),
     skipOnError |-> Bool(FALSE),
     store |-> Null,
     storeKeyGenerator |-> Fn("storeKeyGenerator")]

ObjectAssign_TargetWins(target, source) ==
    IF "object" \in DOMAIN source
    THEN [f \in DOMAIN target \cup DOMAIN source.object |->
             IF f \in DOMAIN target THEN target[f] ELSE source.object[f]]
    ELSE target

ObjectAssign_SkipNullish(target, source) ==
    IF "object" \in DOMAIN source
    THEN [f \in DOMAIN target \cup DOMAIN source.object |->
             IF f \in DOMAIN source.object /\ source.object[f] \notin {Null, Undefined}
             THEN source.object[f]
             ELSE IF f \in DOMAIN target THEN target[f] ELSE source.object[f]]
    ELSE target

\* Object.assign(target, source): every own property of source is copied to
\* target, whatever its value; a boolean has no own properties.
ObjectAssign(target, source) ==
    IF "object" \in DOMAIN source
    THEN [f \in DOMAIN target \cup DOMAIN source.object |->
             IF f \in DOMAIN source.object THEN source.object[f] ELSE target[f]]
    ELSE target

\* plugin.js 31-108: the global options of a plugin registered with `opts`.
properLimiterPlugin(opts) ==
    LET merged == ObjectAssign(DefaultOptions, opts)
    IN IF ~Truthy(merged.store)
       THEN [merged EXCEPT !.store = StoreInstance("LocalStore")]
       ELSE merged

\* An error thrown by the onRoute hook: its class and its message, as the
\* option the message names between backquotes and the text after it.
ConfigError(class, subject, rest) ==
    [error |-> class, message |-> <<subject, rest>>]

ValidateConfig_StoreOptional(cfg) ==
    IF Typeof(cfg.errorResponseGenerator) # "function"
    THEN ConfigError("TypeError", "limiter.errorResponseGenerator", "should be a function.")
    ELSE IF Truthy(cfg.ignore) /\ Typeof(cfg.ignore) # "function"
    THEN ConfigError("TypeError", "limiter.ignore", "should be a function.")
    ELSE IF Typeof(cfg.max) # "number" /\ Typeof(cfg.max) # "function"
    THEN ConfigError("TypeError", "limiter.max", "should be a number or a function.")
    ELSE IF Typeof(cfg.per) # "number"
    THEN ConfigError("TypeError", "limiter.per", "should be a number.")
    ELSE IF Typeof(cfg.storeKeyGenerator) # "function"
    THEN ConfigError("TypeError", "limiter.storeKeyGenerator", "should be a function.")
    ELSE Null

ValidateConfig_IgnoreUnchecked(cfg) ==
    IF ~Truthy(cfg.store)
    THEN ConfigError("Error", "limiter.store", "is required.")
    ELSE IF Typeof(cfg.errorResponseGenerator) # "function"
    THEN ConfigError("TypeError", "limiter.errorResponseGenerator", "should be a function.")
    ELSE IF Typeof(cfg.max) # "number" /\ Typeof(cfg.max) # "function"
    THEN ConfigError("TypeError", "limiter.max", "should be a number or a function.")
    ELSE IF Typeof(cfg.per) # "number"
    THEN ConfigError("TypeError", "limiter.per", "should be a number.")
    ELSE IF Typeof(cfg.storeKeyGenerator) # "function"
    THEN ConfigError("TypeError", "limiter.storeKeyGenerator", "should be a function.")
    ELSE Null

\* plugin.js 137-165: the error the hook throws for the final config `cfg`,
\* or null when it throws none.
ValidateConfig(cfg) ==
    IF ~Truthy(cfg.store)
    THEN ConfigError("Error", "limiter.store", "is required.")
    ELSE IF Typeof(cfg.errorResponseGenerator) # "function"
    THEN ConfigError("TypeError", "limiter.errorResponseGenerator", "should be a function.")
    ELSE IF Truthy(cfg.ignore) /\ Typeof(cfg.ignore) # "function"
    THEN ConfigError("TypeError", "limiter.ignore", "should be a function.")
    ELSE IF Typeof(cfg.max) # "number" /\ Typeof(cfg.max) # "function"
    THEN ConfigError("TypeError", "limiter.max", "should be a number or a function.")
    ELSE IF Typeof(cfg.per) # "number"
    THEN ConfigError("TypeError", "limiter.per", "should be a number.")
    ELSE IF Typeof(cfg.storeKeyGenerator) # "function"
    THEN ConfigError("TypeError", "limiter.storeKeyGenerator", "should be a function.")
    ELSE Null

\* plugin.js 207-214: the preHandler made for a final config and a route.
properLimiterPreHandlerFactory(cfg, methodUrl) ==
    [function |-> "properLimiterPreHandler", config |-> cfg, routeConfig |-> methodUrl]

IsLimiterPreHandler(h) == "config" \in DOMAIN h

InstallPreHandler_Replace(preHandler, limiterPreHandler) == Arr(<<limiterPreHandler>>)

\* plugin.js 180-187: routeOptions.preHandler after the limiter is added.
InstallPreHandler(preHandler, limiterPreHandler) ==
    IF IsArray(preHandler)
    THEN Arr(Append(preHandler.array, limiterPreHandler))
    ELSE IF Typeof(preHandler) = "function"
    THEN Arr(<<preHandler, limiterPreHandler>>)
    ELSE Arr(<<limiterPreHandler>>)

\* How the hook leaves a route: the options it was added with, the limiter
\* options and final config the hook computed, the error it threw and the
\* route's preHandler.
RouteResult(routeOptions, limiterOptions, cfg, err, preHandler) ==
    [routeOptions |-> routeOptions, limiterOptions |-> limiterOptions,
     config |-> cfg, error |-> err, preHandler |-> preHandler]

onRoute_AlwaysOn(global, routeOptions) ==
    LET cfg == global
        err == ValidateConfig(cfg)
        methodUrl == [method |-> routeOptions.method, url |-> routeOptions.url]
        given == IF Truthy(routeOptions.config)
                 THEN Get(routeOptions.config, "limiter")
                 ELSE routeOptions.config
    IN IF err # Null
       THEN RouteResult(routeOptions, given, cfg, err, routeOptions.preHandler)
       ELSE RouteResult(routeOptions, given, cfg, Null,
                        InstallPreHandler(routeOptions.preHandler,
                            properLimiterPreHandlerFactory(cfg, methodUrl)))

\* plugin.js 111-188: the onRoute hook for a route added with routeOptions.
onRoute(global, routeOptions) ==
    LET limiterOptions == IF Truthy(routeOptions.config)
                          THEN Get(routeOptions.config, "limiter")
                          ELSE routeOptions.config
    IN IF ~Truthy(limiterOptions)
       THEN RouteResult(routeOptions, limiterOptions, Null, Null, routeOptions.preHandler)
       ELSE IF Typeof(limiterOptions) # "object" /\ Typeof(limiterOptions) # "boolean"
       THEN RouteResult(routeOptions, limiterOptions, Null,
                ConfigError("TypeError", "config.limiter", "should be an object or a boolean."),
                routeOptions.preHandler)
       ELSE LET cfg == ObjectAssign(global, limiterOptions)
                err == ValidateConfig(cfg)
                methodUrl == [method |-> routeOptions.method, url |-> routeOptions.url]
            IN IF err # Null
               THEN RouteResult(routeOptions, limiterOptions, cfg, err,
                                routeOptions.preHandler)
               ELSE RouteResult(routeOptions, limiterOptions, cfg, Null,
                        InstallPreHandler(routeOptions.preHandler,
                            properLimiterPreHandlerFactory(cfg, methodUrl)))

\* A call a request makes: what is called, on what, with what argument.
Call(name, on, arg) == [call |-> name, on |-> on, arg |-> arg]

\* plugin.js 219-246: the calls the limiter preHandler makes until it awaits
\* the store; `ignored` is whether config.ignore, if set, returns true.
LimiterCalls(h, ignored) ==
    <<Call("storeKeyGenerator", h.config.storeKeyGenerator, h.routeConfig)>>
    \o (IF Truthy(h.config.ignore)
        THEN <<Call("ignore", h.config.ignore, Undefined)>>
        ELSE <<>>)
    \o (IF Truthy(h.config.ignore) /\ ignored
        THEN <<>>
        ELSE <<Call("store.increment", h.config.store, h.config.per)>>)

\* The preHandlers of a route, in the order they run.
Handlers(preHandler) ==
    IF IsArray(preHandler)
    THEN preHandler.array
    ELSE IF Typeof(preHandler) = "function"
    THEN <<preHandler>>
    ELSE <<>>

RECURSIVE CallsOf(_, _)
\* The calls of a request that runs the preHandlers hs, each letting it pass.
CallsOf(hs, ignored) ==
    IF hs = <<>>
    THEN <<>>
    ELSE (IF IsLimiterPreHandler(Head(hs))
          THEN LimiterCalls(Head(hs), ignored)
          ELSE <<Call("preHandler", Head(hs), Undefined)>>)
         \o CallsOf(Tail(hs), ignored)

\* The stores of the plugin tests and the values a caller may pass.
NoopTestStore == StoreInstance("NoopTestStore")

JsValues ==
    {Undefined, Null, Bool(TRUE), Bool(FALSE), Num(0), Num(10), Num(0 - 1), NaN,
     Str("not_a_function"), Fn("custom"), NoopTestStore}

\* The option records with at most n fields.
Records(n) ==
    UNION {[F -> JsValues] : F \in {F \in SUBSET Fields : Cardinality(F) <= n}}

\* The options the plugin is registered with in the tests and the README.
PluginOptions ==
    {Obj(<<>>),
     Obj([store |-> NoopTestStore]),
     Obj([store |-> Null]),
     Obj([max |-> Num(1), per |-> Num(1), skipOnError |-> Bool(TRUE)]),
     Obj([store |-> StoreInstance("LocalTestStore"), storeKeyGenerator |-> Fn("custom")]),
     Obj([ignore |-> Fn("custom"), errorResponseGenerator |-> Fn("custom")])}

\* What a route's config.limiter may be, and the route's config with it.
LimiterValues ==
    {Undefined, Null, Bool(TRUE), Bool(FALSE), Num(0), Num(10), Str(""),
     Str("invalid_value"), Fn("custom")}
        \cup {Obj(m) : m \in Records(MaxLimiterFields)}

RouteConfigs ==
    {Undefined, Obj(<<>>)} \cup {Obj([limiter |-> l]) : l \in LimiterValues}

PreHandlers ==
    {Undefined, Fn("own"), Arr(<<>>), Arr(<<Fn("own")>>), Arr(<<Fn("own"), Fn("own2")>>)}

InitRoute ==
    /\ store = LocalStore_new(DefaultMax)
    /\ clock = 0
    /\ calls = <<>>
    /\ config = Null
    /\ testStore = LocalTestStore_new
    /\ reqs = <<>>
    /\ last = Null
    /\ overlap = FALSE
    /\ incLog = NewMap
    /\ NoRedis
    /\ options \in PluginOptions
    /\ globalOptions = properLimiterPlugin(options)
    /\ route = Null
    /\ ran = <<>>

\* fastify.route(routeOptions): the onRoute hook runs for the route.
AddRoute ==
    /\ route = Null
    /\ \E cfg \in RouteConfigs, preHandler \in PreHandlers :
          route' = onRoute(globalOptions,
                           [method |-> routeConfig.method, url |-> routeConfig.url,
                            config |-> cfg, preHandler |-> preHandler])
    /\ UNCHANGED <<options, globalOptions, ran>>
    /\ UNCHANGED <<store, clock, calls, limiterVars, redisVars>>

\* A request to the route: its preHandlers run in order.  The application
\* does not start when the hook threw.
RouteRequest(ignored) ==
    /\ route # Null
    /\ route.error = Null
    /\ ran' = CallsOf(Handlers(route.preHandler), ignored)
    /\ UNCHANGED <<options, globalOptions, route>>
    /\ UNCHANGED <<store, clock, calls, limiterVars, redisVars>>

NextRoute ==
    \/ AddRoute
    \/ \E ignored \in BOOLEAN : RouteRequest(ignored)

SpecRoute == InitRoute /\ [][NextRoute]_vars

(***************************************************************************)
(* Properties of the registration.                                         *)
(***************************************************************************)
\* The hook merged a final config for the route.
Resolved == route # Null /\ route.config # Null

\* The own properties of the route's config.limiter.
Own == IF "object" \in DOMAIN route.limiterOptions
       THEN route.limiterOptions.object
       ELSE <<>>

\* C11: in the final config of a route every field present in the route's
\* config.limiter has the route's value and every other field has the global
\* value; a global option the plugin was not registered with has its default
\* (max 300, per 60, skipOnError false, ignore null); with limiter = true or
\* limiter = {} the final config is exactly the global options.
C11_ConfigPrecedence ==
    Resolved =>
        /\ \A f \in Fields :
              route.config[f] = IF f \in DOMAIN Own THEN Own[f] ELSE globalOptions[f]
        /\ "max" \notin DOMAIN options.object => globalOptions.max = Num(300)
        /\ "per" \notin DOMAIN options.object => globalOptions.per = Num(60)
        /\ "skipOnError" \notin DOMAIN options.object =>
              globalOptions.skipOnError = Bool(FALSE)
        /\ "ignore" \notin DOMAIN options.object => globalOptions.ignore = Null
        /\ route.limiterOptions \in {Bool(TRUE), Obj(<<>>)} =>
              route.config = globalOptions

\* The route overrides max and inherits per and skipOnError from the options
\* the plugin was registered with.
C11_Witness ==
    /\ Resolved
    /\ route.error = Null
    /\ options = Obj([max |-> Num(1), per |-> Num(1), skipOnError |-> Bool(TRUE)])
    /\ route.limiterOptions = Obj([max |-> Num(10)])
    /\ route.config.max = Num(10)
    /\ route.config.per = Num(1)
    /\ route.config.skipOnError = Bool(TRUE)
    /\ route.config.ignore = Null

\* C12 as stated: a field that the route's config.limiter sets to null or
\* undefined has the global value in the final config.
C12_NullishInherits ==
    Resolved =>
        \A f \in DOMAIN Own :
            Own[f] \in {Null, Undefined} => route.config[f] = globalOptions[f]

\* C12, amended: a field that the route's config.limiter sets to null or
\* undefined has that null or undefined in the final config, not the global
\* value; so a null or undefined store, errorResponseGenerator, max, per or
\* storeKeyGenerator fails the registration.
C12_NullishOverrides ==
    Resolved =>
        \A f \in DOMAIN Own :
            Own[f] \in {Null, Undefined} =>
                /\ route.config[f] = Own[f]
                /\ f \in {"store", "errorResponseGenerator", "max", "per",
                          "storeKeyGenerator"} => route.error # Null

C12_Witness ==
    /\ Resolved
    /\ options = Obj([max |-> Num(1), per |-> Num(1), skipOnError |-> Bool(TRUE)])
    /\ globalOptions.max = Num(1)
    /\ route.limiterOptions = Obj([max |-> Null])
    /\ route.config.max = Null
    /\ route.error # Null

\* C13: a route whose config.limiter has store: null fails registration with
\* the error that limiter.store is required, also when the plugin holds the
\* default LocalStore in its global options; no preHandler is added.
C13_NullStoreFails ==
    (route # Null /\ "store" \in DOMAIN Own /\ Own["store"] = Null) =>
        /\ route.error = ConfigError("Error", "limiter.store", "is required.")
        /\ route.preHandler = route.routeOptions.preHandler

C13_Witness ==
    /\ route # Null
    /\ options = Obj(<<>>)
    /\ globalOptions.store = StoreInstance("LocalStore")
    /\ route.limiterOptions = Obj([store |-> Null])
    /\ route.error = ConfigError("Error", "limiter.store", "is required.")

PositiveNumber(v) == IsNumber(v) /\ v.number > 0

\* C14: a final config whose per is not a positive number fails the
\* registration and no limiter preHandler is added; no request reaches the
\* store with a per that is not positive.
C14_WindowValidation ==
    /\ (Resolved /\ ~PositiveNumber(route.config.per)) =>
           /\ route.error # Null
           /\ route.preHandler = route.routeOptions.preHandler
    /\ \A i \in DOMAIN ran :
           ran[i].call = "store.increment" => PositiveNumber(ran[i].arg)

\* The fields of a final config that break a rule of C15, and those that
\* break any rule of the hook.
BadFields(cfg) ==
    {f \in {"errorResponseGenerator", "storeKeyGenerator"} : Typeof(cfg[f]) # "function"}
        \cup {f \in {"ignore"} : Truthy(cfg[f]) /\ Typeof(cfg[f]) # "function"}
        \cup {f \in {"max"} : Typeof(cfg[f]) \notin {"number", "function"}}
        \cup {f \in {"store"} : ~Truthy(cfg[f])}

InvalidFields(cfg) == BadFields(cfg) \cup {f \in {"per"} : Typeof(cfg[f]) # "number"}

Subject ==
    [errorResponseGenerator |-> "limiter.errorResponseGenerator",
     ignore |-> "limiter.ignore", max |-> "limiter.max", per |-> "limiter.per",
     store |-> "limiter.store", storeKeyGenerator |-> "limiter.storeKeyGenerator"]

\* C15: when errorResponseGenerator or storeKeyGenerator is not a function,
\* ignore is set and not a function, max is neither a number nor a function
\* or the store is missing in the final config, the registration fails with
\* an error that names an invalid field (the field, when one is invalid), no
\* limiter preHandler is added and no request is served by the route.
C15_EagerTypeValidation ==
    (Resolved /\ BadFields(route.config) # {}) =>
        /\ route.error # Null
        /\ route.error.message[1] \in {Subject[f] : f \in InvalidFields(route.config)}
        /\ route.preHandler = route.routeOptions.preHandler
        /\ ran = <<>>

C15_Witness ==
    /\ Resolved
    /\ route.limiterOptions = Obj([ignore |-> Str("not_a_function")])
    /\ BadFields(route.config) = {"ignore"}
    /\ route.error = ConfigError("TypeError", "limiter.ignore", "should be a function.")

\* C16: a route without config.limiter, or with a falsy one, is registered
\* with the preHandler it had and its requests call nothing but the route's
\* own preHandlers: no key generator, no ignore predicate, no store; a
\* config.limiter that is truthy and neither an object nor a boolean fails
\* the registration with the error that says so.
C16_OptInPerRoute ==
    /\ (route # Null /\ ~Truthy(route.limiterOptions)) =>
           /\ route.error = Null
           /\ route.preHandler = route.routeOptions.preHandler
           /\ \A i \in DOMAIN ran : ran[i].call = "preHandler"
    /\ (/\ route # Null
        /\ Truthy(route.limiterOptions)
        /\ Typeof(route.limiterOptions) \notin {"object", "boolean"}) =>
           route.error = ConfigError("TypeError", "config.limiter",
                                     "should be an object or a boolean.")

\* A request was served by a route without config, registered next to global
\* options that limit to one request per second.
C16_Witness ==
    /\ route # Null
    /\ options = Obj([max |-> Num(1), per |-> Num(1), skipOnError |-> Bool(TRUE)])
    /\ route.routeOptions.config = Undefined
    /\ route.routeOptions.preHandler = Fn("own")
    /\ ran = <<Call("preHandler", Fn("own"), Undefined)>>

\* The preHandlers a route was added with.
Before ==
    IF IsArray(route.routeOptions.preHandler)
    THEN route.routeOptions.preHandler.array
    ELSE IF IsFunction(route.routeOptions.preHandler)
    THEN <<route.routeOptions.preHandler>>
    ELSE <<>>

\* C17: a route on which the limiter is installed has as its preHandlers the
\* ones it was added with, a function or an array, in their order, and the
\* limiter preHandler after them; a request calls them first, in that order.
C17_PreHandlersPreserved ==
    (Resolved /\ route.error = Null) =>
        /\ IsArray(route.preHandler)
        /\ Len(route.preHandler.array) = Len(Before) + 1
        /\ \A i \in 1..Len(Before) : route.preHandler.array[i] = Before[i]
        /\ IsLimiterPreHandler(route.preHandler.array[Len(Before) + 1])
        /\ ran # <<>> =>
              /\ Len(ran) > Len(Before)
              /\ \A i \in 1..Len(Before) : ran[i] = Call("preHandler", Before[i], Undefined)
              /\ ran[Len(Before) + 1].call = "storeKeyGenerator"

C17_Witness ==
    /\ Resolved
    /\ route.error = Null
    /\ route.routeOptions.preHandler = Arr(<<Fn("own"), Fn("own2")>>)
    /\ Len(ran) >= 4
    /\ ran[1] = Call("preHandler", Fn("own"), Undefined)
    /\ ran[2] = Call("preHandler", Fn("own2"), Undefined)
    /\ ran[4].call = "store.increment"

(***************************************************************************)
(* Direct use of the store classes: _set, _get and increment of a          *)
(* LocalStore and new RedisStore(redis) (test/LocalStore.test.js,          *)
(* test/RedisStore.test.js).  `calls` is the list of the calls made.       *)
(***************************************************************************)
MaxOps == 3

REDIS_CMD_NAME == "increxpr"

\* An ioredis client with the custom commands defined on it.
RedisClient(commands) == [ioredis |-> commands]

\* What a constructor call produces: it throws, or the new object.
Thrown(err) == [threw |-> err]
Constructed(object) == [object |-> object]

MissingRedisError == [error |-> "Error",
                      message |-> <<"redis", "must be an instance of \"ioredis\".">>]
TypeError(message) == [error |-> "TypeError", message |-> message]

\* redis[REDIS_CMD_NAME] || redis.defineCommand(REDIS_CMD_NAME, ...): the
\* client after it.
defineCommand(redis) == RedisClient(redis.ioredis \cup {REDIS_CMD_NAME})

\* new RedisStore(redis).  src/stores/RedisStore.js holds two definitions of
\* the class: the first tests `!redis` before it touches the client, the
\* second reads redis[REDIS_CMD_NAME] at once.
RedisStore_new(redis, definition) ==
    IF definition = 1 /\ ~Truthy(redis)
    THEN Thrown(MissingRedisError)
    ELSE IF redis \in {Undefined, Null}
    THEN Thrown(TypeError(<<"Cannot read property", REDIS_CMD_NAME, "of", redis>>))
    ELSE Constructed([class |-> "RedisStore", redis |-> defineCommand(redis)])

Definitions == {1, 2}
RedisArgs == {Undefined, Null, RedisClient({})}

\* key, key2, ...: one key more than the largest small capacity.
CacheKeys == {<<"key", n>> : n \in 1..(MaxCap + 1)}
Value == Str(<<"value">>)
CacheTtl == MaxTtl

\* A call on the LocalStore: its arguments, its result and the store as the
\* call found it.
Op(op, key, arg, result, before) ==
    [op |-> op, key |-> key, arg |-> arg, result |-> result, before |-> before]

CacheSet(key) ==
    /\ Len(calls) < MaxOps
    /\ store' = LocalStore_set(store, key, Value)
    /\ calls' = Append(calls, Op("_set", key, Value, Undefined, store))
    /\ UNCHANGED <<clock, limiterVars, redisVars, routeVars>>

CacheGet(key) ==
    /\ Len(calls) < MaxOps
    /\ LET g == LocalStore_get(store, key)
       IN /\ store' = g.store
          /\ calls' = Append(calls, Op("_get", key, Undefined, g.value, store))
    /\ UNCHANGED <<clock, limiterVars, redisVars, routeVars>>

CacheIncrement(key) ==
    /\ Len(calls) < MaxOps
    /\ LET r == LocalStore_increment(store, key, CacheTtl, DateNow(clock))
       IN /\ store' = r.store
          /\ calls' = Append(calls, Op("increment", key, CacheTtl, r.promise, store))
    /\ UNCHANGED <<clock, limiterVars, redisVars, routeVars>>

NewRedisStore(redis, definition) ==
    /\ Len(calls) < MaxOps
    /\ calls' = Append(calls, [op |-> "new RedisStore", definition |-> definition,
                               arg |-> redis,
                               result |-> RedisStore_new(redis, definition)])
    /\ UNCHANGED <<store, clock, limiterVars, redisVars, routeVars>>

NextStores ==
    \/ \E key \in CacheKeys : CacheSet(key)
    \/ \E key \in CacheKeys : CacheGet(key)
    \/ \E key \in CacheKeys : CacheIncrement(key)
    \/ \E redis \in RedisArgs, definition \in Definitions :
          NewRedisStore(redis, definition)

SpecStores == InitLocal /\ [][NextStores]_vars

(***************************************************************************)
(* Properties of the store classes.                                        *)
(***************************************************************************)
\* C21: new RedisStore(redis) without a client throws the Error
\* "`redis` must be an instance of "ioredis"." and produces no store.
C21_MissingClientError ==
    \A i \in 1..Len(calls) :
        (calls[i].op = "new RedisStore" /\ ~Truthy(calls[i].arg)) =>
            calls[i].result = Thrown(MissingRedisError)

\* The calls so far were all made on the LocalStore.
CacheOnly == \A i \in 1..Len(calls) : calls[i].op # "new RedisStore"

\* The call puts a key into the current generation that is not in it.
Inserts(s, call) ==
    /\ ~MapHas(s.cache, call.key)
    /\ \/ call.op \in {"_set", "increment"}
       \/ call.op = "_get" /\ MapHas(s.oldCache, call.key)

\* C22: after every _get, _set and increment the current generation holds
\* at most max entries and both generations at most 2 * max; an insertion
\* that makes the size counter reach max leaves the current generation, with
\* the inserted key, as the previous one, the old previous one dropped, and
\* an empty current generation of size 0.
C22_CapacityBound ==
    [][LET call == calls'[Len(calls')]
       IN call.op # "new RedisStore" =>
              /\ MapSize(store'.cache) <= store'.max
              /\ MapSize(store'.cache) + MapSize(store'.oldCache) <= 2 * store'.max
              /\ (Inserts(store, call) /\ store.size + 1 = store.max) =>
                     /\ store'.size = 0
                     /\ store'.cache = NewMap
                     /\ DOMAIN store'.oldCache = DOMAIN store.cache \cup {call.key}
                     /\ \A k \in DOMAIN store.cache :
                            store'.oldCache[k] = store.cache[k]]_vars

\* A store of a small capacity is full, and an insertion has rotated it.
C22_Witness ==
    /\ CacheOnly
    /\ Len(calls) = MaxOps
    /\ store.max = 2
    /\ calls[MaxOps].op = "_get"
    /\ store.size = 0
    /\ MapSize(store.oldCache) = 2

\* max + 1 distinct keys were inserted into the empty store, and nothing else
\* was called.
InsertedOneMore ==
    /\ Len(calls) = store.max + 1
    /\ \A i \in 1..Len(calls) : calls[i].op = "_set"
    /\ \A i, j \in 1..Len(calls) : calls[i].key = calls[j].key => i = j

\* C23 as stated: for every capacity max >= 1, after inserting max + 1
\* distinct keys into an empty LocalStore, _get finds each key inserted
\* before the last one.
C23_SurvivalAcrossRotation ==
    InsertedOneMore =>
        \A i \in 1..store.max :
            LocalStore_get(store, calls[i].key).value = calls[i].arg

\* C23, amended: for every capacity max >= 2, after inserting max + 1
\* distinct keys into an empty LocalStore, _get finds each key inserted
\* before the last one.
C23_SurvivalAboveOne ==
    (InsertedOneMore /\ store.max >= 2) =>
        \A i \in 1..store.max :
            LocalStore_get(store, calls[i].key).value = calls[i].arg

C23_Witness ==
    /\ InsertedOneMore
    /\ store.max >= 2
    /\ calls[1].key \in DOMAIN store.oldCache

\* C31: _get of a key that only the previous generation holds returns its
\* value, takes the key out of the previous generation and inserts it into
\* the current one, the size counter going up by one; when the counter
\* reaches max by it, the current generation with the key becomes the
\* previous one.  _get of a key of the current generation changes nothing,
\* and _set of a key of the current generation replaces the value and leaves
\* the size counter as it is.
C31_Promotion ==
    [][LET call == calls'[Len(calls')]
       IN /\ (/\ call.op = "_get"
              /\ ~MapHas(store.cache, call.key)
              /\ MapHas(store.oldCache, call.key)) =>
                 /\ call.result = store.oldCache[call.key]
                 /\ store'.max = store.max
                 /\ IF store.size + 1 >= store.max
                    THEN /\ store'.size = 0
                         /\ store'.cache = NewMap
                         /\ store'.oldCache =
                                MapSet(store.cache, call.key, call.result)
                    ELSE /\ store'.size = store.size + 1
                         /\ store'.cache =
                                MapSet(store.cache, call.key, call.result)
                         /\ store'.oldCache =
                                MapDelete(store.oldCache, call.key)
          /\ (call.op = "_get" /\ MapHas(store.cache, call.key)) =>
                 /\ call.result = store.cache[call.key]
                 /\ store' = store
          /\ (call.op = "_set" /\ MapHas(store.cache, call.key)) =>
                 /\ store'.size = store.size
                 /\ store'.cache = MapSet(store.cache, call.key, call.arg)
                 /\ store'.oldCache = store.oldCache]_vars

\* Two keys were inserted into a store of capacity 2, which rotated it, and
\* _get has promoted the first one.
C31_Witness ==
    /\ CacheOnly
    /\ Len(calls) = 3
    /\ store.max = 2
    /\ calls[1].op = "_set" /\ calls[2].op = "_set" /\ calls[3].op = "_get"
    /\ calls[1].key # calls[2].key
    /\ calls[3].key = calls[1].key
    /\ calls[3].result = Value
    /\ store.size = 1
    /\ MapHas(store.cache, calls[1].key)
    /\ ~MapHas(store.oldCache, calls[1].key)
    /\ MapHas(store.oldCache, calls[2].key)

\* No key is in both generations of the store s.
Disjoint(s) == DOMAIN s.cache \cap DOMAIN s.oldCache = {}

\* C33 as stated: after any sequence of _get, _set and increment calls no
\* key is present in both the current and the previous generation.
C33_GenerationsDisjoint == CacheOnly => Disjoint(store)

\* The i-th call is a _set of a key that only the previous generation holds.
SetsPreviousOnly(i) ==
    /\ calls[i].op = "_set"
    /\ ~MapHas(calls[i].before.cache, calls[i].key)
    /\ MapHas(calls[i].before.oldCache, calls[i].key)

\* C33, amended: after any sequence of _get, _set and increment calls in
\* which _set is never called for a key that only the previous generation
\* holds, no key is present in both the current and the previous generation.
C33_DisjointUnlessSetOfPrevious ==
    (CacheOnly /\ \A i \in 1..Len(calls) : ~SetsPreviousOnly(i)) =>
        Disjoint(store)

\* increment of a key of the previous generation has promoted it, and both
\* generations hold keys.
C33_Witness ==
    /\ CacheOnly
    /\ \A i \in 1..Len(calls) : ~SetsPreviousOnly(i)
    /\ Len(calls) = MaxOps
    /\ calls[MaxOps].op = "increment"
    /\ MapHas(calls[MaxOps].before.oldCache, calls[MaxOps].key)
    /\ MapHas(store.cache, calls[MaxOps].key)
    /\ store.oldCache # NewMap

\* The store as the i-th call left it.
StoreAfter(i) == IF i = Len(calls) THEN store ELSE calls[i + 1].before

\* The value _get finds for the key in the store s.
Retrievable(s, key) == LocalStore_get(s, key).value

\* The i-th call stored or read its key.
Accessed(i) == Retrievable(StoreAfter(i), calls[i].key) # Undefined

\* The calls after the i-th that inserted or promoted a key.
InsertionsSince(i) ==
    {j \in (i + 1)..Len(calls) : Inserts(calls[j].before, calls[j])}

\* C34: after a call has stored or read a key, the key stays retrievable,
\* with the value it had then, through any following calls for other keys
\* of which fewer than max insert or promote a key; so the entry is lost
\* only after at least max insertions of other keys since its last access.
C34_RecencyRetention ==
    CacheOnly =>
        \A i \in 1..Len(calls) :
            (/\ Accessed(i)
             /\ \A j \in (i + 1)..Len(calls) : calls[j].key # calls[i].key
             /\ Cardinality(InsertionsSince(i)) < store.max) =>
                Retrievable(store, calls[i].key) =
                    Retrievable(StoreAfter(i), calls[i].key)

\* The second insertion into a store of capacity 2 has rotated it, a third
\* key was inserted after it, and the second key is still found in the
\* previous generation.
C34_Witness ==
    /\ CacheOnly
    /\ Len(calls) = 3
    /\ store.max = 2
    /\ Accessed(2)
    /\ calls[2].before.size = 1
    /\ calls[3].key # calls[2].key
    /\ InsertionsSince(2) = {3}
    /\ ~MapHas(store.cache, calls[2].key)
    /\ Retrievable(store, calls[2].key) # Undefined

(***************************************************************************)
(* Requests to the routes of an application that uses the default          *)
(* storeKeyGenerator.  A string is the list of its pieces; a colon is a     *)
(* piece of its own, so that two lists are equal exactly when the strings  *)
(* are.                                                                    *)
(***************************************************************************)
MaxKeyRequests == 2

\* The routes: method and url as given to fastify.route.
KeyRoutes ==
    {[method |-> <<"GET">>, url |-> <<"/test">>],
     [method |-> <<"POST">>, url |-> <<"/test">>],
     [method |-> <<"GET">>, url |-> <<"/user/", ":", "id">>],
     [method |-> <<"GET">>, url |-> <<"/test", ":", ":", ":", "ffff">>]}

\* request.ip: IPv4, IPv6 and IPv4-mapped IPv6 addresses.
KeyIps ==
    {<<"127.0.0.1">>, <<"10.0.0.2">>, <<":", ":", "1">>,
     <<":", ":", "ffff", ":", "10.0.0.2">>}

InitKeys ==
    /\ InitRoute
    /\ options = Obj(<<>>)

\* plugin.js 219: a request to a route computes its store key.
KeyRequest(methodUrl, ip) ==
    /\ Len(calls) < MaxKeyRequests
    /\ calls' = Append(calls, [routeConfig |-> methodUrl, ip |-> ip,
                               storeKey |-> storeKeyGenerator([ip |-> ip], methodUrl)])
    /\ UNCHANGED <<store, clock, limiterVars, redisVars, routeVars>>

NextKeys == \E methodUrl \in KeyRoutes, ip \in KeyIps : KeyRequest(methodUrl, ip)

SpecKeys == InitKeys /\ [][NextKeys]_vars

\* C25: the default store key is fastify-proper-limiter:<method>:<url>:<ip>,
\* and two requests have the same key only if they agree on the route's
\* method, the route's url and the caller's ip.
C25_DefaultKeyIsolation ==
    \A i, j \in 1..Len(calls) :
        /\ calls[i].storeKey =
               <<"fastify-proper-limiter", ":">> \o calls[i].routeConfig.method
                   \o <<":">> \o calls[i].routeConfig.url \o <<":">> \o calls[i].ip
        /\ calls[i].storeKey = calls[j].storeKey =>
               /\ calls[i].routeConfig = calls[j].routeConfig
               /\ calls[i].ip = calls[j].ip

(***************************************************************************)
(* An application with several routes.  Objects are told apart here: the   *)
(* plugin's globalOptions object, and the config objects the onRoute hook   *)
(* creates, which `config` lists.  `calls` lists the routes registered.     *)
(***************************************************************************)
\* References to the objects.
GlobalRef == [object |-> "globalOptions", n |-> Len(<<>>)]
ConfigRef(n) == [object |-> "config", n |-> n]

\* The contents of the object a reference points to.
Deref(ref, global, configs) ==
    IF ref = GlobalRef THEN global ELSE configs[ref.n]

\* Object.assign(globalOptions, limiterOptions): the global object is the
\* target and the config.
ResolveConfig_InPlace(global, configs, limiterOptions) ==
    [config |-> GlobalRef,
     globalOptions |-> ObjectAssign(global, limiterOptions),
     configs |-> configs]

\* plugin.js 135: Object.assign({ ...globalOptions }, limiterOptions).  The
\* target is a new object with the properties of globalOptions; the result
\* is the reference to it and the contents of the objects after the
\* statement.
ResolveConfig(global, configs, limiterOptions) ==
    [config |-> ConfigRef(Len(configs) + 1),
     globalOptions |-> global,
     configs |-> Append(configs, ObjectAssign(global, limiterOptions))]

\* The routes of the application, in the order they are added.
AppRoutes ==
    <<[method |-> <<"GET">>, url |-> <<"/test">>],
      [method |-> <<"POST">>, url |-> <<"/test">>]>>

\* What the routes have as config.limiter (README, plugin tests).
AppLimiters ==
    {Undefined, Bool(TRUE), Str("invalid_value"),
     Obj([max |-> Num(1)]),
     Obj([max |-> Num(10), per |-> Num(1)]),
     Obj([max |-> Fn("custom"), ignore |-> Fn("custom")]),
     Obj([store |-> NoopTestStore, skipOnError |-> Bool(TRUE)]),
     Obj([per |-> Null])}

InitApp ==
    /\ store = LocalStore_new(DefaultMax)
    /\ clock = 0
    /\ calls = <<>>
    /\ config = <<>>
    /\ testStore = LocalTestStore_new
    /\ reqs = <<>>
    /\ last = Null
    /\ overlap = FALSE
    /\ incLog = NewMap
    /\ NoRedis
    /\ options \in PluginOptions
    /\ globalOptions = properLimiterPlugin(options)
    /\ route = Null
    /\ ran = <<>>

\* The application starts when no onRoute hook threw.
Started == \A i \in 1..Len(calls) : calls[i].error = Null

\* fastify.route(...) of the next route: the onRoute hook runs for it.
\* `resolved` is the final config the hook computed, `config` the reference
\* to the object that holds it.
RegisterRoute(limiterOptions) ==
    /\ Len(calls) < Len(AppRoutes)
    /\ Started
    /\ ran = <<>>
    /\ LET methodUrl == AppRoutes[Len(calls) + 1]
           result == onRoute(globalOptions,
                             [method |-> methodUrl.method, url |-> methodUrl.url,
                              config |-> Obj([limiter |-> limiterOptions]),
                              preHandler |-> Undefined])
           r == ResolveConfig(globalOptions, config, limiterOptions)
       IN IF result.config = Null
          THEN /\ calls' = Append(calls, [routeConfig |-> methodUrl,
                                          limiterOptions |-> limiterOptions,
                                          config |-> Null, resolved |-> Null,
                                          error |-> result.error])
               /\ UNCHANGED <<globalOptions, config>>
          ELSE /\ calls' = Append(calls, [routeConfig |-> methodUrl,
                                          limiterOptions |-> limiterOptions,
                                          config |-> r.config,
                                          resolved |-> result.config,
                                          error |-> result.error])
               /\ globalOptions' = r.globalOptions
               /\ config' = r.configs
    /\ UNCHANGED <<options, route, ran>>
    /\ UNCHANGED <<store, clock, testStore, reqs, last, incLog, overlap, redisVars>>

\* plugin.js 207-289: a request to the i-th route runs its limiter
\* preHandler, which reads its config and assigns to no property of it.
AppRequest(i, ignored) ==
    /\ Started
    /\ calls[i].config # Null
    /\ ran' = LimiterCalls([config |-> Deref(calls[i].config, globalOptions, config),
                            routeConfig |-> calls[i].routeConfig], ignored)
    /\ UNCHANGED <<options, globalOptions, route, calls, config>>
    /\ UNCHANGED <<store, clock, testStore, reqs, last, incLog, overlap, redisVars>>

NextApp ==
    \/ \E limiterOptions \in AppLimiters : RegisterRoute(limiterOptions)
    \/ \E i \in 1..Len(calls), ignored \in BOOLEAN : AppRequest(i, ignored)

SpecApp == InitApp /\ [][NextApp]_vars

\* The routes whose onRoute hook resolved a config.
Limited == {i \in 1..Len(calls) : calls[i].config # Null}

\* The fields the i-th route sets in its config.limiter.
Overrides(i) ==
    IF "object" \in DOMAIN calls[i].limiterOptions
    THEN DOMAIN calls[i].limiterOptions.object
    ELSE {}

\* C32: resolving a route's config leaves the plugin's global options as
\* they were registered and the config of every other route as it was
\* resolved, requests change no resolved config, each route has a config
\* object of its own, and a route has the global value of every field it
\* does not set, whatever the routes before it have set.
C32_ConfigIsolation ==
    /\ globalOptions = properLimiterPlugin(options)
    /\ \A i \in Limited :
          /\ calls[i].config # GlobalRef
          /\ Deref(calls[i].config, globalOptions, config) = calls[i].resolved
          /\ \A f \in Fields \ Overrides(i) :
                calls[i].resolved[f] = properLimiterPlugin(options)[f]
          /\ \A j \in Limited : calls[i].config = calls[j].config => i = j

\* The first route overrides max, the second route does not, and requests
\* to the first route were handled: the second route has the global max.
C32_Witness ==
    /\ Len(calls) = Len(AppRoutes)
    /\ Limited = 1..Len(calls)
    /\ Started
    /\ "max" \in Overrides(1)
    /\ "max" \notin Overrides(2)
    /\ ran # <<>>
    /\ calls[1].resolved.max # globalOptions.max
    /\ Deref(calls[2].config, globalOptions, config).max = globalOptions.max

====
